---- MODULE Spec2Model ----
(***************************************************************************)
(* Email Hunter: the extractor (email_hunter.py: find_emails, hunt_emails) *)
(* and the service around it (main.py: API_KEYS, verify_api_key, the       *)
(* request schema, extract_emails, generate_api_key).                      *)
(*                                                                         *)
(* A text is a sequence of one-character strings.  Spec runs one           *)
(* invocation of hunt_emails on a text drawn from a bounded set and then   *)
(* runs find_emails again on the joined output; SpecApi runs the service   *)
(* with concurrent requests.                                               *)
(***************************************************************************)
EXTENDS Integers, Sequences, FiniteSets, TLC

VARIABLES
    text,           \* hunt_emails' argument
    emails,         \* find_emails: the list re.findall returned
    idx,            \* find_emails: position of the for loop in emails
    seen,           \* find_emails: the local set of lowercased matches
    unique_emails,  \* find_emails: the local output list
    result,         \* the dict hunt_emails returned
    rerun,          \* find_emails applied to the joined output
    pc,             \* position of the invocation
    env_keys,       \* main.py: the keys stored at start-up from MASTER_API_KEYS
    API_KEYS,       \* main.py: the module-level key store
    req,            \* main.py: the requests in flight, one record per slot
    issued,         \* history: keys POST /api/generate-key has returned
    authenticated   \* history: keys verify_api_key has accepted

extractor_vars == <<text, emails, idx, seen, unique_emails, result, rerun, pc>>
api_vars == <<env_keys, API_KEYS, req, issued, authenticated>>
vars == <<text, emails, idx, seen, unique_emails, result, rerun, pc,
          env_keys, API_KEYS, req, issued, authenticated>>

-----------------------------------------------------------------------------
(* Characters and str.lower()                                              *)

UpperSeq == <<"A","B","C","D","E","F","G","H","I","J","K","L","M",
              "N","O","P","Q","R","S","T","U","V","W","X","Y","Z">>
LowerSeq == <<"a","b","c","d","e","f","g","h","i","j","k","l","m",
              "n","o","p","q","r","s","t","u","v","w","x","y","z">>
UpperLetters == {UpperSeq[i] : i \in 1..26}
LowerLetters == {LowerSeq[i] : i \in 1..26}
Letters == UpperLetters \cup LowerLetters
Digits == {"0","1","2","3","4","5","6","7","8","9"}

\* str.lower() on one (ASCII) character
lower_char(c) ==
    IF c \in UpperLetters
    THEN LowerSeq[CHOOSE i \in 1..26 : UpperSeq[i] = c]
    ELSE c

\* email.lower()
lower(s) == [i \in 1..Len(s) |-> lower_char(s[i])]

-----------------------------------------------------------------------------
(* email_pattern = \b[A-Za-z0-9._%+-]+@[A-Za-z0-9.-]+\.[A-Z|a-z]{2,}\b      *)

\* \w for the characters of the model: letter, digit or underscore
IsWord(c) == c \in Letters \cup Digits \cup {"_"}

\* [A-Za-z0-9._%+-]
IsLocal(c) == c \in Letters \cup Digits \cup {".", "_", "%", "+", "-"}

\* [A-Za-z0-9.-]
IsDomain(c) == c \in Letters \cup Digits \cup {".", "-"}

\* [A-Z|a-z]: inside a character class "|" is a literal
IsTld(c) == c \in Letters \cup {"|"}

\* {2,}
tld_min == 2

WordAt(s, i) == i >= 1 /\ i <= Len(s) /\ IsWord(s[i])

\* \b at the position before s[p] (p = Len(s)+1: the end of the string)
Boundary(s, p) == WordAt(s, p - 1) # WordAt(s, p)

Max(S) == CHOOSE x \in S : \A y \in S : y <= x

\* greedy runs of each class starting at s[p]
LocalRun(s, p) ==
    Max({k \in 0..(Len(s) - p + 1) : \A j \in p..(p + k - 1) : IsLocal(s[j])})
DomainRun(s, p) ==
    Max({k \in 0..(Len(s) - p + 1) : \A j \in p..(p + k - 1) : IsDomain(s[j])})
TldRun(s, p) ==
    Max({k \in 0..(Len(s) - p + 1) : \A j \in p..(p + k - 1) : IsTld(s[j])})

\* The tld lengths with which the pattern succeeds when the tld starts at
\* s[p]: at least tld_min characters of the run, ending at a \b.
TldChoices(s, p) ==
    {t \in tld_min..TldRun(s, p) : Boundary(s, p + t)}

\* faulty variant: an empty domain accepted ("*" for "+")
DomainChoicesStar(s, d) ==
    {k \in 0..DomainRun(s, d) :
        /\ d + k <= Len(s)
        /\ s[d + k] = "."
        /\ TldChoices(s, d + k + 1) # {}}

\* The domain lengths with which the pattern succeeds when the domain starts
\* at s[d]: one or more domain characters, then a literal ".", then a tld.
DomainChoices(s, d) ==
    {k \in 1..DomainRun(s, d) :
        /\ d + k <= Len(s)
        /\ s[d + k] = "."
        /\ TldChoices(s, d + k + 1) # {}}

\* re's match of email_pattern starting at s[p]: the length of the match, 0
\* for none.  The local part is the whole run (a shorter one is followed by a
\* local character, never by "@"); the backtracking engine then takes the
\* longest domain that lets the rest succeed, and with it the longest tld.
MatchLen(s, p) ==
    LET l == LocalRun(s, p)
        d == p + l + 1
    IN  IF \/ ~Boundary(s, p)
           \/ l = 0
           \/ p + l > Len(s)
           \/ s[p + l] # "@"
           \/ DomainChoices(s, d) = {}
        THEN 0
        ELSE LET k == Max(DomainChoices(s, d))
                 t == Max(TldChoices(s, d + k + 1))
             IN  l + 1 + k + 1 + t

\* re.findall(email_pattern, text) from position p: non-overlapping matches,
\* left to right, the scan resuming where a match ended
RECURSIVE findall_from(_, _)
findall_from(s, p) ==
    IF p > Len(s)
    THEN <<>>
    ELSE LET m == MatchLen(s, p)
         IN  IF m > 0
             THEN <<SubSeq(s, p, p + m - 1)>> \o findall_from(s, p + m)
             ELSE findall_from(s, p + 1)

findall(s) == findall_from(s, 1)

-----------------------------------------------------------------------------
(* find_emails' loop body and hunt_emails' return                          *)

\* faulty variant: membership tested on the match itself, not its lowercase form
dedup_step_case_sensitive(sn, un, email) ==
    IF email \notin sn
    THEN [seen |-> sn \cup {email}, unique_emails |-> Append(un, email)]
    ELSE [seen |-> sn, unique_emails |-> un]

\* faulty variant: the lowercased form appended instead of the match
dedup_step_append_lower(sn, un, email) ==
    IF lower(email) \notin sn
    THEN [seen |-> sn \cup {lower(email)},
          unique_emails |-> Append(un, lower(email))]
    ELSE [seen |-> sn, unique_emails |-> un]

\* faulty variant: the membership test inverted
dedup_step_inverted(sn, un, email) ==
    IF lower(email) \in sn
    THEN [seen |-> sn, unique_emails |-> Append(un, email)]
    ELSE [seen |-> sn \cup {lower(email)}, unique_emails |-> un]

\* one iteration of "for email in emails"
dedup_step(sn, un, email) ==
    IF lower(email) \notin sn
    THEN [seen |-> sn \cup {lower(email)}, unique_emails |-> Append(un, email)]
    ELSE [seen |-> sn, unique_emails |-> un]

RECURSIVE dedup_from(_, _, _, _)
dedup_from(es, i, sn, un) ==
    IF i > Len(es)
    THEN un
    ELSE LET st == dedup_step(sn, un, es[i])
         IN  dedup_from(es, i + 1, st.seen, st.unique_emails)

\* find_emails as a function of its argument
find_emails(s) == dedup_from(findall(s), 1, {}, <<>>)

\* faulty variant: the two lengths swapped
hunt_result_swapped(s, out) ==
    [emails |-> out, count |-> Len(s), text_length |-> Len(out)]

\* the dict hunt_emails builds from find_emails' list
hunt_result(s, out) ==
    [emails |-> out, count |-> Len(out), text_length |-> Len(s)]

hunt_emails(s) == hunt_result(s, find_emails(s))

NoResult == [emails |-> <<>>, count |-> -1, text_length |-> -1]

-----------------------------------------------------------------------------
(* The input texts of Spec                                                 *)

\* the characters texts are built from: a letter, a digit, the two
\* separators of the pattern, the "|" of the tld class, an underscore (a word
\* character outside the domain and tld classes) and a blank
Alphabet == {"a", "1", ".", "@", "|", "_", " "}

\* the shape of "bad-email@.com": nothing between "@" and the only dot
BadEmailShape == <<"a","@",".","c","d">>

\* whole tokens, so that a text of a few pieces holds several candidates: an
\* address, the same address in another casing, the shape of
\* "bad-email@.com", and a dot with a tld
Seeds == {<<"a","@","b",".","c","d">>,
          <<"A","@","b",".","C","D">>,
          BadEmailShape,
          <<".","c","d">>}

Pieces == {<<c>> : c \in Alphabet} \cup Seeds

\* a text has at most MaxPieces pieces
MaxPieces == 3

RECURSIVE Concats(_)
Concats(n) ==
    IF n = 0
    THEN {<<>>}
    ELSE LET shorter == Concats(n - 1)
         IN  shorter \cup {t \o p : t \in shorter, p \in Pieces}

\* "Contact support@company.com or sales@company.com."
Scenario1 ==
    <<"C","o","n","t","a","c","t"," ","s","u","p","p","o","r","t","@","c",
      "o","m","p","a","n","y",".","c","o","m"," ","o","r"," ","s","a","l",
      "e","s","@","c","o","m","p","a","n","y",".","c","o","m",".">>

\* "Reach John at JOHN.DOE@Example.ORG and john.doe@example.org"
Scenario2 ==
    <<"R","e","a","c","h"," ","J","o","h","n"," ","a","t"," ","J","O","H",
      "N",".","D","O","E","@","E","x","a","m","p","l","e",".","O","R","G",
      " ","a","n","d"," ","j","o","h","n",".","d","o","e","@","e","x","a",
      "m","p","l","e",".","o","r","g">>

\* "no address here"
Scenario3 ==
    <<"n","o"," ","a","d","d","r","e","s","s"," ","h","e","r","e">>

\* "user@sub.domain.co"
Scenario4 ==
    <<"u","s","e","r","@","s","u","b",".","d","o","m","a","i","n",".","c",
      "o">>

\* "bad-email@.com and good@ok.io"
Scenario5 ==
    <<"b","a","d","-","e","m","a","i","l","@",".","c","o","m"," ","a","n",
      "d"," ","g","o","o","d","@","o","k",".","i","o">>

ScenarioTexts == {Scenario1, Scenario2, Scenario3, Scenario4, Scenario5}

Texts == Concats(MaxPieces) \cup ScenarioTexts

\* " ".join(list)
RECURSIVE join(_)
join(list) ==
    IF list = <<>>
    THEN <<>>
    ELSE IF Len(list) = 1
         THEN Head(list)
         ELSE Head(list) \o <<" ">> \o join(Tail(list))

-----------------------------------------------------------------------------
(* The service (main.py): state and inputs                                 *)

DEMO_KEY == "demo_key_12345"

\* One element of os.getenv("API_KEYS", "").split(","): a key (possibly
\* empty), with or without blanks around it.
EnvEntries == {[key |-> "", padded |-> FALSE],
               [key |-> "", padded |-> TRUE],
               [key |-> "demo_key_12345", padded |-> FALSE],
               [key |-> "env_key_1", padded |-> TRUE]}

\* MASTER_API_KEYS: the values of the split, of one or two elements
EnvValues == {<<e>> : e \in EnvEntries} \cup {<<e, f>> : e, f \in EnvEntries}

\* the truth value of an element as a str: it is not the empty string
Truthy(e) == e.key # "" \/ e.padded

\* the keys lines 72-80 store: none unless the first element is non-empty,
\* else the non-empty key.strip() of every element
LoadedKeys(env) ==
    IF Len(env) > 0 /\ Truthy(env[1])
    THEN {env[i].key : i \in 1..Len(env)} \ {""}
    ELSE {}

\* the keys "test_key_" + secrets.token_urlsafe(16) may come out as
GenKeys == {"test_key_1"}

\* no X-API-Key header (x_api_key is None)
NoHeader == "<no header>"

\* the X-API-Key headers of the requests: none, empty, the demo key, a key
\* that is valid once it has been generated
Headers == {NoHeader, "", "demo_key_12345", "test_key_1"}

\* APIKeyGenerateRequest.name: empty or given
Names == {"", "My Test App"}

\* the texts of the extraction requests: empty, blank only, one address, the
\* same address twice in two casings
ApiTexts == {<<>>,
             <<" ", "\t">>,
             <<"a","@","b",".","c","d">>,
             <<"A","@","b",".","C","D"," ","a","@","b",".","c","d">>}

\* concurrent requests
MaxReqs == 2

Reqs == 1..MaxReqs

IdleReq ==
    [pc |-> "idle", key |-> NoHeader, text |-> <<>>, hunted |-> FALSE,
     emails |-> <<>>, idx |-> 0, seen |-> {}, unique_emails |-> <<>>,
     status |-> 0, body |-> NoResult]

\* API_KEYS after the module is loaded: the demo key, then one entry per
\* loaded environment key (an entry of the same name is overwritten)
InitialKeys(loaded) ==
    [k \in {DEMO_KEY} \cup loaded |->
        IF k \in loaded
        THEN [name |-> "Environment Key", tier |-> "premium"]
        ELSE [name |-> "Demo Key", tier |-> "free"]]

\* the service is not running
ApiOff ==
    /\ env_keys = {}
    /\ API_KEYS = InitialKeys({})
    /\ req = [r \in Reqs |-> IdleReq]
    /\ issued = {}
    /\ authenticated = {}

-----------------------------------------------------------------------------
(* Spec: one invocation of hunt_emails, then find_emails on its output     *)

Init ==
    /\ text \in Texts
    /\ emails = <<>>
    /\ idx = 0
    /\ seen = {}
    /\ unique_emails = <<>>
    /\ result = NoResult
    /\ rerun = <<>>
    /\ pc = "call"
    /\ ApiOff

\* emails = re.findall(email_pattern, text); seen = set(); unique_emails = []
Scan ==
    /\ pc = "call"
    /\ emails' = findall(text)
    /\ seen' = {}
    /\ unique_emails' = <<>>
    /\ idx' = 1
    /\ pc' = "loop"
    /\ UNCHANGED <<text, result, rerun>>
    /\ UNCHANGED api_vars

\* one iteration of "for email in emails"
LoopStep ==
    /\ pc = "loop"
    /\ idx <= Len(emails)
    /\ LET st == dedup_step(seen, unique_emails, emails[idx])
       IN  /\ seen' = st.seen
           /\ unique_emails' = st.unique_emails
    /\ idx' = idx + 1
    /\ UNCHANGED <<text, emails, result, rerun, pc>>
    /\ UNCHANGED api_vars

\* the loop is over: find_emails returns and hunt_emails builds its dict
Return ==
    /\ pc = "loop"
    /\ idx > Len(emails)
    /\ result' = hunt_result(text, unique_emails)
    /\ pc' = "done"
    /\ UNCHANGED <<text, emails, idx, seen, unique_emails, rerun>>
    /\ UNCHANGED api_vars

\* the extractor run again on its own output, joined by a blank
Rerun ==
    /\ pc = "done"
    /\ rerun' = find_emails(join(result.emails))
    /\ pc' = "rerun"
    /\ UNCHANGED <<text, emails, idx, seen, unique_emails, result>>
    /\ UNCHANGED api_vars

Next == Scan \/ LoopStep \/ Return \/ Rerun

Spec == Init /\ [][Next]_vars

-----------------------------------------------------------------------------
(* Properties of the extractor, checked under Spec                         *)

Returned == pc \in {"done", "rerun"}

SeqSet(list) == {list[i] : i \in 1..Len(list)}

LowerSet(list) == {lower(list[i]) : i \in 1..Len(list)}

\* the position of the "@" of a match (a match holds exactly one)
AtPos(e) == CHOOSE i \in 1..Len(e) : e[i] = "@"

\* the position of the last "." of a match
LastDot(e) == Max({i \in 1..Len(e) : e[i] = "."})

\* the part of a match after its last "."
TldOf(e) == SubSeq(e, LastDot(e) + 1, Len(e))

\* the part of a match between "@" and the last "."
DomainOf(e) == SubSeq(e, AtPos(e) + 1, LastDot(e) - 1)

IsSubstring(e, m) ==
    \E i \in 1..(Len(m) - Len(e) + 1) : SubSeq(m, i, i + Len(e) - 1) = e

\* C1: the list find_emails builds, at every point of its loop, and the
\* 'emails' field hunt_emails returns hold no two entries whose lowercase
\* forms are equal.
C1_UniqueModuloCase ==
    /\ \A i, j \in 1..Len(unique_emails) :
         i # j => lower(unique_emails[i]) # lower(unique_emails[j])
    /\ \A i, j \in 1..Len(result.emails) :
         i # j => lower(result.emails[i]) # lower(result.emails[j])

\* C1's case: the text held two matches that differ only in casing, and the
\* call returned fewer entries than there were matches.
C1_Witness ==
    /\ Returned
    /\ \E i, j \in 1..Len(emails) :
         /\ i < j
         /\ emails[i] # emails[j]
         /\ lower(emails[i]) = lower(emails[j])
    /\ Len(result.emails) >= 1
    /\ Len(result.emails) < Len(emails)

\* the matches that are the first of their lowercase form, in scan order
RECURSIVE FirstOccurrencesFrom(_, _)
FirstOccurrencesFrom(raw, i) ==
    IF i > Len(raw)
    THEN <<>>
    ELSE IF \E j \in 1..(i - 1) : lower(raw[j]) = lower(raw[i])
         THEN FirstOccurrencesFrom(raw, i + 1)
         ELSE <<raw[i]>> \o FirstOccurrencesFrom(raw, i + 1)

\* C2: the output of find_emails is the raw matches of the text in scan order
\* without those whose lowercase form equals that of an earlier match; what
\* is kept is the first occurrence in its own casing.
C2_FirstOccurrencesInOrder ==
    Returned =>
        /\ emails = findall(text)
        /\ result.emails = FirstOccurrencesFrom(findall(text), 1)

\* C2's case: Scenario 2 returned the upper-case first occurrence alone.
C2_Witness ==
    /\ Returned
    /\ text = Scenario2
    /\ Len(emails) = 2
    /\ result.emails = <<SubSeq(Scenario2, 15, 34)>>
    /\ result.emails[1] # lower(result.emails[1])

\* C3 as stated: the extractor run on its own output, joined by a blank,
\* returns the same set of emails (compared case-insensitively).
C3_Original ==
    pc = "rerun" => LowerSet(rerun) = LowerSet(result.emails)

\* C3 amended: the second run returns only substrings of the first run's
\* emails, and returns (case-insensitively) every email of the first run
\* that begins and ends with a word character.
C3_RerunOnOwnOutput ==
    pc = "rerun" =>
        /\ \A e \in SeqSet(rerun) : \E m \in SeqSet(result.emails) :
             IsSubstring(e, m)
        /\ \A m \in SeqSet(result.emails) :
             (IsWord(m[1]) /\ IsWord(m[Len(m)])) => lower(m) \in LowerSet(rerun)

\* C3's case: the first run returned, with letters-only tlds, an email that
\* begins with a non-word character next to one that begins and ends with a
\* word character; the second run returned the latter and not the former.
C3_Witness ==
    /\ pc = "rerun"
    /\ \A m \in SeqSet(result.emails) :
         \A i \in 1..Len(TldOf(m)) : TldOf(m)[i] \in Letters
    /\ \E m \in SeqSet(result.emails) : ~IsWord(m[1])
    /\ \E m \in SeqSet(result.emails) :
         IsWord(m[1]) /\ IsWord(m[Len(m)]) /\ m \in SeqSet(rerun)
    /\ LowerSet(rerun) # LowerSet(result.emails)

\* C4: in every email find_emails returns, the part after the last "." has
\* at least two characters, all of them letters A-Z or a-z.
C4_TldLetters ==
    \A e \in SeqSet(unique_emails) :
        /\ Len(TldOf(e)) >= 2
        /\ \A i \in 1..Len(TldOf(e)) : TldOf(e)[i] \in Letters

\* C5 as stated: no email find_emails returns has a "." right after its "@".
C5_Original ==
    \A e \in SeqSet(unique_emails) : e[AtPos(e) + 1] # "."

\* C5 amended: every email find_emails returns has at least one character
\* between its "@" and its last "." (so "a@.cd", the shape of
\* "bad-email@.com", is never returned), and Scenario 5 returns good@ok.io
\* alone.
C5_DomainNotEmpty ==
    /\ \A e \in SeqSet(unique_emails) : Len(DomainOf(e)) >= 1
    /\ (Returned /\ text = Scenario5) =>
         result.emails = <<SubSeq(Scenario5, 20, 29)>>
    /\ (Returned /\ text = BadEmailShape) => result.emails = <<>>

\* C5's case: a text that begins with the shape "a@.cd" and goes on with
\* another dot and tld was scanned, and an email whose domain starts with a
\* dot was returned.
C5_Witness ==
    /\ Returned
    /\ Len(text) > Len(BadEmailShape)
    /\ SubSeq(text, 1, Len(BadEmailShape)) = BadEmailShape
    /\ \E e \in SeqSet(result.emails) : e[AtPos(e) + 1] = "."

-----------------------------------------------------------------------------
(* SpecApi: the service with concurrent requests                           *)

\* the extractor's own run is not part of the service
ExtractorOff ==
    /\ text = <<>>
    /\ emails = <<>>
    /\ idx = 0
    /\ seen = {}
    /\ unique_emails = <<>>
    /\ result = NoResult
    /\ rerun = <<>>
    /\ pc = "off"

InitApi ==
    /\ env_keys \in {LoadedKeys(env) : env \in EnvValues}
    /\ API_KEYS = InitialKeys(env_keys)
    /\ req = [r \in Reqs |-> IdleReq]
    /\ issued = {}
    /\ authenticated = {}
    /\ ExtractorOff

\* faulty variant: only the missing header is refused
verify_api_key_missing_only(x_api_key) ==
    IF x_api_key = NoHeader \/ x_api_key = ""
    THEN "Missing API key"
    ELSE "ok"

\* verify_api_key: "ok" when it returns the key's entry, else the error of
\* the 401 it raises
verify_api_key(x_api_key) ==
    IF x_api_key = NoHeader \/ x_api_key = ""
    THEN "Missing API key"
    ELSE IF x_api_key \notin DOMAIN API_KEYS
         THEN "Invalid API key"
         ELSE "ok"

\* the characters str.strip() removes, among those of the model
Whitespace == {" ", "\t", "\n", "\r", "\f"}

\* v.strip()
strip(v) ==
    LET kept == {i \in 1..Len(v) : v[i] \notin Whitespace}
    IN  IF kept = {}
        THEN <<>>
        ELSE SubSeq(v,
                    CHOOSE i \in kept : \A j \in kept : i <= j,
                    CHOOSE i \in kept : \A j \in kept : j <= i)

\* Field(min_length=1, max_length=1000000)
min_length == 1
max_length == 1000000

\* faulty variant: the validator without the strip()
text_not_empty_no_strip(v) == v # <<>>

\* the validator text_not_empty: TRUE when it returns v, FALSE when it raises
text_not_empty(v) == ~(v = <<>> \/ strip(v) = <<>>)

\* EmailExtractionRequest accepts the body
request_valid(v) ==
    /\ Len(v) >= min_length
    /\ Len(v) <= max_length
    /\ text_not_empty(v)

\* faulty variant: seen as one set shared by all invocations
shared_seen(r) == UNION {req[q].seen : q \in Reqs}

\* seen is a local of the invocation
local_seen(r) == req[r].seen

\* faulty variant: the store replaced by the new entry
store_key_replacing(keys, api_key, info) ==
    [k \in {api_key} |-> info]

\* API_KEYS[api_key] = info
store_key(keys, api_key, info) ==
    [k \in DOMAIN keys \cup {api_key} |-> IF k = api_key THEN info ELSE keys[k]]

\* A request arrives and FastAPI runs the dependency verify_api_key on its
\* X-API-Key header first: a 401, or on to the body.
VerifyApiKey(r) ==
    /\ req[r].pc = "idle"
    /\ \E k \in Headers :
         IF verify_api_key(k) = "ok"
         THEN /\ req' = [req EXCEPT ![r] =
                           [IdleReq EXCEPT !.pc = "authed", !.key = k]]
              /\ authenticated' = authenticated \cup {k}
         ELSE /\ req' = [req EXCEPT ![r] =
                           [IdleReq EXCEPT !.pc = "done", !.key = k,
                                           !.status = 401]]
              /\ UNCHANGED authenticated
    /\ UNCHANGED <<env_keys, API_KEYS, issued>>
    /\ UNCHANGED extractor_vars

\* the request's body (its text is an input, looked at here for the first
\* time) is validated against EmailExtractionRequest: a 422, or on to the
\* endpoint function
ValidateBody(r) ==
    /\ req[r].pc = "authed"
    /\ \E t \in ApiTexts :
         IF request_valid(t)
         THEN req' = [req EXCEPT ![r].pc = "valid", ![r].text = t]
         ELSE req' = [req EXCEPT ![r].pc = "done", ![r].text = t,
                                 ![r].status = 422]
    /\ UNCHANGED <<env_keys, API_KEYS, issued, authenticated>>
    /\ UNCHANGED extractor_vars

\* @limiter.limit("10/minute"): the limiter, whose clock and counters are
\* outside the program, may refuse the call with a 429
RateLimited(r) ==
    /\ req[r].pc = "valid"
    /\ req' = [req EXCEPT ![r].pc = "done", ![r].status = 429]
    /\ UNCHANGED <<env_keys, API_KEYS, issued, authenticated>>
    /\ UNCHANGED extractor_vars

\* extract_emails calls hunt_emails, which calls find_emails: findall and the
\* two locals
ExtractCall(r) ==
    /\ req[r].pc = "valid"
    /\ req' = [req EXCEPT ![r].pc = "loop",
                          ![r].hunted = TRUE,
                          ![r].emails = findall(req[r].text),
                          ![r].seen = {},
                          ![r].unique_emails = <<>>,
                          ![r].idx = 1]
    /\ UNCHANGED <<env_keys, API_KEYS, issued, authenticated>>
    /\ UNCHANGED extractor_vars

\* one iteration of find_emails' loop in request r
ExtractLoop(r) ==
    /\ req[r].pc = "loop"
    /\ req[r].idx <= Len(req[r].emails)
    /\ LET st == dedup_step(local_seen(r), req[r].unique_emails,
                            req[r].emails[req[r].idx])
       IN  req' = [req EXCEPT ![r].seen = st.seen,
                              ![r].unique_emails = st.unique_emails,
                              ![r].idx = req[r].idx + 1]
    /\ UNCHANGED <<env_keys, API_KEYS, issued, authenticated>>
    /\ UNCHANGED extractor_vars

\* find_emails and hunt_emails return and extract_emails answers 200 with the
\* fields of the result; the locals are gone
ExtractReturn(r) ==
    /\ req[r].pc = "loop"
    /\ req[r].idx > Len(req[r].emails)
    /\ req' = [req EXCEPT ![r].pc = "done",
                          ![r].status = 200,
                          ![r].body = hunt_result(req[r].text, req[r].unique_emails),
                          ![r].emails = <<>>,
                          ![r].seen = {},
                          ![r].unique_emails = <<>>,
                          ![r].idx = 0]
    /\ UNCHANGED <<env_keys, API_KEYS, issued, authenticated>>
    /\ UNCHANGED extractor_vars

\* the response is sent and the slot is free for another request
Respond(r) ==
    /\ req[r].pc = "done"
    /\ req' = [req EXCEPT ![r] = IdleReq]
    /\ UNCHANGED <<env_keys, API_KEYS, issued, authenticated>>
    /\ UNCHANGED extractor_vars

\* POST /api/generate-key: a key is drawn, stored with tier "free" under
\* request.name or "Test Key", and returned (created_at, a clock reading, is
\* left out of the entries)
GenerateKey ==
    /\ \E api_key \in GenKeys, name \in Names :
         /\ API_KEYS' = store_key(API_KEYS, api_key,
                                  [name |-> IF name = "" THEN "Test Key" ELSE name,
                                   tier |-> "free"])
         /\ issued' = issued \cup {api_key}
    /\ UNCHANGED <<env_keys, req, authenticated>>
    /\ UNCHANGED extractor_vars

NextApi ==
    \/ GenerateKey
    \/ \E r \in Reqs :
         \/ VerifyApiKey(r)
         \/ ValidateBody(r)
         \/ RateLimited(r)
         \/ ExtractCall(r)
         \/ ExtractLoop(r)
         \/ ExtractReturn(r)
         \/ Respond(r)

SpecApi == InitApi /\ [][NextApi]_vars

-----------------------------------------------------------------------------
(* Properties of the service, checked under SpecApi                        *)

Blank(v) == \A i \in 1..Len(v) : v[i] \in Whitespace

\* the header names no key of the store
BadKey(k) == k = NoHeader \/ k = "" \/ k \notin DOMAIN API_KEYS

C7_State ==
    \A r \in Reqs :
        /\ req[r].hunted =>
             (req[r].key # NoHeader /\ req[r].key # ""
              /\ req[r].key \in DOMAIN API_KEYS)
        /\ req[r].status = 401 =>
             (~req[r].hunted /\ req[r].pc = "done" /\ req[r].body = NoResult)

C7_Step ==
    \A r \in Reqs :
        /\ (req[r].pc = "idle" /\ req'[r].pc # "idle") =>
             IF BadKey(req'[r].key)
             THEN req'[r].status = 401 /\ ~req'[r].hunted
             ELSE req'[r].pc = "authed" /\ req'[r].status = 0
        /\ req[r].status = 401 => req'[r] \in {req[r], IdleReq}

\* C7: a request whose X-API-Key header is missing, empty or no key of
\* API_KEYS when verify_api_key runs is answered 401 and hunt_emails is never
\* invoked for it; a request whose key is in API_KEYS passes authentication.
C7_BadKeyIs401 == []C7_State /\ [][C7_Step]_vars

\* C7's case: one request was refused for a key that is not in the store,
\* another, with the demo key, has had hunt_emails invoked.
C7_Witness ==
    \E r, q \in Reqs :
        /\ req[r].status = 401
        /\ req[r].key = "test_key_1"
        /\ "test_key_1" \notin DOMAIN API_KEYS
        /\ req[q].hunted
        /\ req[q].key = DEMO_KEY

\* C8: hunt_emails is never invoked through the endpoint on an empty or
\* whitespace-only text: validation answers such a request 422.
C8_BlankTextRejected ==
    \A r \in Reqs :
        /\ req[r].hunted => (req[r].text # <<>> /\ ~Blank(req[r].text))
        /\ (req[r].pc \in {"valid", "loop", "done"} /\ req[r].status # 401
            /\ Blank(req[r].text)) =>
             (req[r].status = 422 /\ ~req[r].hunted)

\* C8's case: an authenticated request with a whitespace-only text, and one
\* with an empty text, were answered 422.
C8_Witness ==
    \E r, q \in Reqs :
        /\ req[r].status = 422
        /\ req[r].text = <<" ", "\t">>
        /\ req[r].key \in DOMAIN API_KEYS
        /\ req[q].status = 422
        /\ req[q].text = <<>>

C9_State ==
    \A r \in Reqs :
        req[r].status = 200 => req[r].body = hunt_emails(req[r].text)

C9_Step ==
    \A r \in Reqs :
        (req[r].pc \in {"valid", "loop"} /\ req'[r] # req[r]) =>
            API_KEYS' = API_KEYS

\* C9: under any interleaving of extractions and key generations, what an
\* extraction returns is what hunt_emails returns for its text alone, and no
\* step of an extraction changes API_KEYS.
C9_IndependentInvocations == []C9_State /\ [][C9_Step]_vars

\* C9's case: a key has been generated, one extraction has returned its
\* emails while another is inside its loop with a match already seen.
C9_Witness ==
    \E r, q \in Reqs :
        /\ issued # {}
        /\ req[r].status = 200
        /\ req[r].body.count = 1
        /\ req[q].pc = "loop"
        /\ req[q].seen # {}
        /\ req[q].idx <= Len(req[q].emails)

\* C10 as stated: the demo key and every generated key are in API_KEYS with
\* tier "free", and every key that has authenticated is still in API_KEYS.
C10_Original ==
    /\ DEMO_KEY \in DOMAIN API_KEYS
    /\ API_KEYS[DEMO_KEY].tier = "free"
    /\ \A k \in issued : k \in DOMAIN API_KEYS /\ API_KEYS[k].tier = "free"
    /\ authenticated \subseteq DOMAIN API_KEYS

C10_State ==
    /\ DEMO_KEY \in DOMAIN API_KEYS
    /\ API_KEYS[DEMO_KEY].tier =
         (IF DEMO_KEY \in env_keys THEN "premium" ELSE "free")
    /\ \A k \in issued : k \in DOMAIN API_KEYS /\ API_KEYS[k].tier = "free"
    /\ authenticated \subseteq DOMAIN API_KEYS

C10_Step ==
    /\ DOMAIN API_KEYS \subseteq DOMAIN API_KEYS'
    /\ \A r \in Reqs :
         (req[r].status # 401 /\ req'[r].status = 401) =>
             req'[r].key \notin authenticated

\* C10 amended: no step removes a key from API_KEYS, and no key that has
\* authenticated is refused later; every generated key stays in API_KEYS
\* with tier "free"; the demo key stays in API_KEYS, with tier "free" unless
\* start-up stored it again from the API_KEYS environment variable, and then
\* with tier "premium".
C10_KeysOnlyGrow == []C10_State /\ [][C10_Step]_vars

\* C10's case: the environment variable lists the demo key, a key has been
\* generated, and a request has authenticated with it and been answered.
C10_Witness ==
    /\ DEMO_KEY \in env_keys
    /\ API_KEYS[DEMO_KEY].tier = "premium"
    /\ "test_key_1" \in issued
    /\ "test_key_1" \in authenticated
    /\ \E r \in Reqs : req[r].key = "test_key_1" /\ req[r].status = 200

====
